---- MODULE Spec2Model ----
(***************************************************************************)
(* Model of ext-php-rs' Zval (src/php/types/zval.rs) and ExecutionData     *)
(* (src/php/execution_data.rs).                                            *)
(*                                                                         *)
(* A Zval is the record [type_info, value, u2].  `value` is the C union    *)
(* zend_value: it keeps the name of the union field written last and the   *)
(* bits written.  Reading another field than the one written last yields   *)
(* Garbage.  Option<T> is a sequence of length 0 (None) or 1 (Some(x)).    *)
(* An f64 is represented by the integer 2*x (all doubles of the model are  *)
(* multiples of 0.5), a str by its sequence of code points, a host string  *)
(* by its sequence of UTF-8 bytes.                                         *)
(***************************************************************************)
EXTENDS Integers, Sequences, FiniteSets, TLC

VARIABLES zv, strings, last, call, layout, frame, out

vars == <<zv, strings, last, call, layout, frame, out>>

(* ------------------------------ bounds -------------------------------- *)
MaxStrings == 2
MaxLong    == 2
MaxHandle  == 1
MaxParams  == 2
MaxSize    == 96
MaxValue   == 24
MaxAlignLog == 4
MaxArgs    == 2
WordBits   == 16

(* ------------------------- DataType and flags ------------------------- *)
DataType_Null      == 1
DataType_False     == 2
DataType_True      == 3
DataType_Long      == 4
DataType_Double    == 5
DataType_String    == 6
DataType_Array     == 7
DataType_Object    == 8
DataType_Resource  == 9
DataType_Reference == 10

IS_INTERNED_STRING_EX == DataType_String
IS_STRING_EX          == DataType_String + 256

(* ------------------------------ Option -------------------------------- *)
None    == <<>>
Some(x) == <<x>>

(* --------------------------- native values ---------------------------- *)
Longs   == (0 - MaxLong)..MaxLong
Doubles == (0 - 2 * MaxLong - 1)..(2 * MaxLong + 1)
Strs    == {<<>>, <<97>>, <<233, 49>>}
Handles == 0..MaxHandle

(* the bits of a union field that was not the one written last *)
Garbage == 0 - 9999

(* x as f64 *)
LongAsF64(x) == 2 * x

RECURSIVE NatToString(_)
NatToString(n) ==
    IF n < 10 THEN <<48 + n>>
    ELSE Append(NatToString(n \div 10), 48 + (n % 10))

(* f64::to_string *)
F64ToString(d) ==
    LET a    == IF d < 0 THEN 0 - d ELSE d
        sign == IF d < 0 THEN <<45>> ELSE <<>>
        frac == IF a % 2 = 1 THEN <<46, 53>> ELSE <<>>
    IN  sign \o NatToString(a \div 2) \o frac

(* the bytes of a str *)
RECURSIVE Utf8Encode(_)
Utf8Encode(s) ==
    IF s = <<>> THEN <<>>
    ELSE LET c == Head(s)
         IN  (IF c < 128 THEN <<c>>
              ELSE <<192 + (c \div 64), 128 + (c % 64)>>) \o Utf8Encode(Tail(s))

(* std::str::from_utf8(..).unwrap().to_string() on well-formed input *)
RECURSIVE Utf8Decode(_)
Utf8Decode(b) ==
    IF b = <<>> THEN <<>>
    ELSE IF Head(b) < 128 THEN <<Head(b)>> \o Utf8Decode(Tail(b))
    ELSE <<(Head(b) - 192) * 64 + (b[2] - 128)>> \o Utf8Decode(Tail(Tail(b)))

(* ----------------------------- host strings --------------------------- *)
(* ZendString::new(val, persistent): a fresh host string holding the bytes *)
ZendString_new(heap, val, persistent) ==
    LET zs == [len |-> Len(Utf8Encode(val)), val |-> Utf8Encode(val),
               persistent |-> persistent, interned |-> FALSE]
    IN  [heap |-> Append(heap, zs), ptr |-> Len(heap) + 1]

(* ZendString::new_interned(val): the interned string with these bytes *)
ZendString_new_interned(heap, val) ==
    LET same == {i \in 1..Len(heap) :
                    heap[i].interned /\ heap[i].val = Utf8Encode(val)}
        zs   == [len |-> Len(Utf8Encode(val)), val |-> Utf8Encode(val),
                 persistent |-> TRUE, interned |-> TRUE]
    IN  IF same # {}
        THEN [heap |-> heap, ptr |-> CHOOSE i \in same : TRUE]
        ELSE [heap |-> Append(heap, zs), ptr |-> Len(heap) + 1]

(* ------------------------------- Zval --------------------------------- *)
Zval_new ==
    [type_info |-> DataType_Null,
     value     |-> [field |-> "ptr", data |-> 0],
     u2        |-> 0]

(* u1.v.type_ : the low byte of u1.type_info *)
type_(z) == z.type_info % 256

(* read of a field of the union zend_value *)
ReadValue(z, f) == IF z.value.field = f THEN z.value.data ELSE Garbage

is_long(z)      == type_(z) = DataType_Long
is_null(z)      == type_(z) = DataType_Null
is_true(z)      == type_(z) = DataType_True
is_false(z)     == type_(z) = DataType_False
is_bool(z)      == is_true(z) \/ is_false(z)
is_double(z)    == type_(z) = DataType_Double
is_string_type_info(z) == z.type_info = DataType_String
is_string(z)    == type_(z) = DataType_String
is_resource(z)  == type_(z) = DataType_Resource
is_array(z)     == type_(z) = DataType_Array
is_object(z)    == type_(z) = DataType_Object
is_reference(z) == type_(z) = DataType_Reference

long_unchecked(z) == Some(ReadValue(z, "lval"))

long(z) == IF is_long(z) THEN Some(ReadValue(z, "lval")) ELSE None

bool(z) ==
    IF is_true(z) THEN Some(TRUE)
    ELSE IF is_false(z) THEN Some(FALSE)
    ELSE None

double(z) ==
    IF is_double(z) THEN Some(ReadValue(z, "dval"))
    ELSE IF long(z) = None THEN None
    ELSE Some(IF long(z)[1] = Garbage THEN Garbage ELSE LongAsF64(long(z)[1]))

string(z, heap) ==
    IF is_string(z)
    THEN LET p == ReadValue(z, "str")
         IN  IF p = Garbage \/ p \notin 1..Len(heap) THEN Some(<<Garbage>>)
             ELSE Some(Utf8Decode(SubSeq(heap[p].val, 1, heap[p].len)))
    ELSE IF double(z) = None THEN None
    ELSE Some(IF double(z)[1] = Garbage THEN <<Garbage>>
              ELSE F64ToString(double(z)[1]))

resource(z) == IF is_resource(z) THEN Some(ReadValue(z, "res")) ELSE None

ZendHashTable_from_ptr(p) == [ptr |-> p]

array(z) ==
    IF is_array(z) THEN Some(ZendHashTable_from_ptr(ReadValue(z, "arr")))
    ELSE None

object(z) == IF is_object(z) THEN Some(ReadValue(z, "obj")) ELSE None

reference(z) == IF is_reference(z) THEN Some(ReadValue(z, "ref_")) ELSE None

set_string(z, heap, val) ==
    LET zend_str == ZendString_new(heap, val, FALSE)
    IN  [zv |-> [z EXCEPT !.value = [field |-> "str", data |-> zend_str.ptr],
                          !.type_info = IS_STRING_EX],
         strings |-> zend_str.heap]

set_persistent_string(z, heap, val) ==
    LET zend_str == ZendString_new(heap, val, TRUE)
    IN  [zv |-> [z EXCEPT !.value = [field |-> "str", data |-> zend_str.ptr],
                          !.type_info = IS_STRING_EX],
         strings |-> zend_str.heap]

set_interned_string(z, heap, val) ==
    LET zend_str == ZendString_new_interned(heap, val)
    IN  [zv |-> [z EXCEPT !.value = [field |-> "str", data |-> zend_str.ptr],
                          !.type_info = IS_INTERNED_STRING_EX],
         strings |-> zend_str.heap]

set_long_tag_only(z, val) == [z EXCEPT !.type_info = DataType_Long]

set_long(z, val) ==
    [z EXCEPT !.value = [field |-> "lval", data |-> val],
              !.type_info = DataType_Long]

set_double(z, val) ==
    [z EXCEPT !.value = [field |-> "dval", data |-> val],
              !.type_info = DataType_Double]

set_bool(z, val) ==
    [z EXCEPT !.type_info = IF val THEN DataType_True ELSE DataType_False]

set_null(z) == [z EXCEPT !.type_info = DataType_Null]

set_resource(z, val) ==
    [z EXCEPT !.type_info = DataType_Resource,
              !.value = [field |-> "res", data |-> val]]

set_object(z, val, copy) ==
    [z EXCEPT !.type_info = DataType_Object,
              !.value = [field |-> "obj", data |-> val]]

set_array(z, val) ==
    [z EXCEPT !.type_info = DataType_Array,
              !.value = [field |-> "arr", data |-> val]]

(* impl From<ZendLong / bool / f64 / String / &str> for Zval *)
From_long(val)   == set_long(Zval_new, val)
From_bool(val)   == set_bool(Zval_new, val)
From_double(val) == set_double(Zval_new, val)
From_String(heap, val) == set_string(Zval_new, heap, val)
From_str(heap, val)    == set_string(Zval_new, heap, val)

(* ----------------------- idle values of the state --------------------- *)
NoCall   == [pc |-> "none"]
NoLayout == [header |-> 0, value |-> 0, align |-> 0]
NoFrame  == [kind |-> "none"]
NoOut    == [op |-> "none"]

Op(name, n, s) == [op |-> name, n |-> n, s |-> s]

(* ------------------- operations on one Zval (SpecZval) ---------------- *)
InitZval ==
    /\ zv = Zval_new
    /\ strings = <<>>
    /\ last = Op("new", 0, <<>>)
    /\ call = NoCall
    /\ layout = NoLayout
    /\ frame = NoFrame
    /\ out = NoOut

ZvalRest == UNCHANGED <<call, layout, frame, out>>

SetNull ==
    /\ zv' = set_null(zv)
    /\ last' = Op("set_null", 0, <<>>)
    /\ UNCHANGED strings /\ ZvalRest

SetBool ==
    \E b \in BOOLEAN :
        /\ zv' = set_bool(zv, b)
        /\ last' = Op("set_bool", IF b THEN 1 ELSE 0, <<>>)
        /\ UNCHANGED strings /\ ZvalRest

SetLong ==
    \E v \in Longs :
        /\ zv' = set_long(zv, v)
        /\ last' = Op("set_long", v, <<>>)
        /\ UNCHANGED strings /\ ZvalRest

SetDouble ==
    \E d \in Doubles :
        /\ zv' = set_double(zv, d)
        /\ last' = Op("set_double", d, <<>>)
        /\ UNCHANGED strings /\ ZvalRest

SetString ==
    \E s \in Strs :
        /\ Len(strings) < MaxStrings
        /\ zv' = set_string(zv, strings, s).zv
        /\ strings' = set_string(zv, strings, s).strings
        /\ last' = Op("set_string", 0, s)
        /\ ZvalRest

SetPersistentString ==
    \E s \in Strs :
        /\ Len(strings) < MaxStrings
        /\ zv' = set_persistent_string(zv, strings, s).zv
        /\ strings' = set_persistent_string(zv, strings, s).strings
        /\ last' = Op("set_persistent_string", 0, s)
        /\ ZvalRest

SetInternedString ==
    \E s \in Strs :
        /\ Len(strings) < MaxStrings
        /\ zv' = set_interned_string(zv, strings, s).zv
        /\ strings' = set_interned_string(zv, strings, s).strings
        /\ last' = Op("set_interned_string", 0, s)
        /\ ZvalRest

SetResource ==
    \E r \in Handles :
        /\ zv' = set_resource(zv, r)
        /\ last' = Op("set_resource", r, <<>>)
        /\ UNCHANGED strings /\ ZvalRest

SetObject ==
    \E o \in Handles, copy \in BOOLEAN :
        /\ zv' = set_object(zv, o, copy)
        /\ last' = Op("set_object", o, <<>>)
        /\ UNCHANGED strings /\ ZvalRest

SetArray ==
    \E a \in Handles :
        /\ zv' = set_array(zv, a)
        /\ last' = Op("set_array", a, <<>>)
        /\ UNCHANGED strings /\ ZvalRest

FromLong ==
    \E v \in Longs :
        /\ zv' = From_long(v)
        /\ last' = Op("From_long", v, <<>>)
        /\ UNCHANGED strings /\ ZvalRest

FromBool ==
    \E b \in BOOLEAN :
        /\ zv' = From_bool(b)
        /\ last' = Op("From_bool", IF b THEN 1 ELSE 0, <<>>)
        /\ UNCHANGED strings /\ ZvalRest

FromDouble ==
    \E d \in Doubles :
        /\ zv' = From_double(d)
        /\ last' = Op("From_double", d, <<>>)
        /\ UNCHANGED strings /\ ZvalRest

FromString ==
    \E s \in Strs :
        /\ Len(strings) < MaxStrings
        /\ zv' = From_String(strings, s).zv
        /\ strings' = From_String(strings, s).strings
        /\ last' = Op("From_String", 0, s)
        /\ ZvalRest

FromStr ==
    \E s \in Strs :
        /\ Len(strings) < MaxStrings
        /\ zv' = From_str(strings, s).zv
        /\ strings' = From_str(strings, s).strings
        /\ last' = Op("From_str", 0, s)
        /\ ZvalRest

NextZval ==
    \/ SetNull \/ SetBool \/ SetLong \/ SetDouble
    \/ SetString \/ SetPersistentString \/ SetInternedString
    \/ SetResource \/ SetObject \/ SetArray
    \/ FromLong \/ FromBool \/ FromDouble \/ FromString \/ FromStr

SpecZval == InitZval /\ [][NextZval]_vars

(* ----------------------- Zval::try_call (SpecCall) -------------------- *)
Native(t, n, str) == [t |-> t, n |-> n, s |-> str]

(* the native values handed to try_call, each turned into a Zval by .into() *)
NativeArgs ==
    {Native("long", 1, <<>>), Native("bool", 1, <<>>), Native("double", 3, <<>>),
     Native("str", 0, <<97>>), Native("str", 0, <<233, 49>>)}

(* the values try_call is invoked on *)
NativeCallees ==
    {Native("long", 1, <<>>), Native("str", 0, <<97>>),
     Native("object", 1, <<>>), Native("null", 0, <<>>)}

Into(nat, heap) ==
    CASE nat.t = "long"   -> [zv |-> From_long(nat.n), strings |-> heap]
      [] nat.t = "bool"   -> [zv |-> From_bool(nat.n = 1), strings |-> heap]
      [] nat.t = "double" -> [zv |-> From_double(nat.n), strings |-> heap]
      [] nat.t = "str"    -> From_str(heap, nat.s)
      [] nat.t = "object" -> [zv |-> set_object(Zval_new, nat.n, FALSE),
                              strings |-> heap]
      [] OTHER            -> [zv |-> Zval_new, strings |-> heap]

RECURSIVE IntoAll(_, _)
IntoAll(nats, heap) ==
    IF nats = <<>> THEN [params |-> <<>>, strings |-> heap]
    ELSE LET h == Into(Head(nats), heap)
             t == IntoAll(Tail(nats), h.strings)
         IN  [params |-> <<h.zv>> \o t.params, strings |-> t.strings]

NativeLists == UNION {[1..n -> NativeArgs] : n \in 0..MaxParams}

(* zend_is_callable: the answers the host can give for a value *)
zend_is_callable(z) ==
    IF is_string(z) \/ is_array(z) \/ is_object(z) THEN BOOLEAN ELSE {FALSE}

(* the status codes and output values of _call_user_function_impl *)
HostStatus  == {0 - 1, 0, 1}
HostRetvals == {Zval_new, From_long(2)}

Ev(name, arg) == [ev |-> name, arg |-> arg]

(* for param in params { if param.is_string() { release(param.value.str) } } *)
RECURSIVE ReleaseEvents(_, _)
ReleaseEvents(params, i) ==
    IF i > Len(params) THEN <<>>
    ELSE (IF is_string(params[i]) THEN <<Ev("release", i)>> ELSE <<>>)
         \o ReleaseEvents(params, i + 1)

try_call_result_le(result, retval) ==
    IF result <= 0 THEN None ELSE Some(retval)

(* if result < 0 { None } else { Some(retval) } *)
try_call_result(result, retval) ==
    IF result < 0 THEN None ELSE Some(retval)

InitCall ==
    /\ zv = Zval_new
    /\ strings = <<>>
    /\ last = Op("new", 0, <<>>)
    /\ call = [pc |-> "idle"]
    /\ layout = NoLayout
    /\ frame = NoFrame
    /\ out = NoOut

CallRest == UNCHANGED <<last, layout, frame, out>>

(* try_call, lines 141-148: box the parameters, test callability *)
TryCallEnter ==
    \E callee \in NativeCallees, nats \in NativeLists :
        LET me   == Into(callee, <<>>)
            args == IntoAll(nats, me.strings)
        IN  \E callable \in zend_is_callable(me.zv) :
                /\ call.pc = "idle"
                /\ zv' = me.zv
                /\ strings' = args.strings
                /\ call' = [pc       |-> IF callable THEN "call" ELSE "done",
                            params   |-> args.params,
                            len      |-> Len(args.params),
                            packed   |-> "allocated",
                            callable |-> callable,
                            retval   |-> Zval_new,
                            filled   |-> Zval_new,
                            status   |-> 0,
                            log      |-> <<Ev("is_callable", 0)>>,
                            result   |-> None]
                /\ CallRest

(* try_call, lines 150-159: _call_user_function_impl *)
TryCallInvoke ==
    \E status \in HostStatus, rv \in HostRetvals :
        /\ call.pc = "call"
        /\ call' = [call EXCEPT !.pc = "reclaim",
                                !.status = status,
                                !.retval = rv,
                                !.filled = rv,
                                !.log = Append(@, Ev("call", call.len))]
        /\ UNCHANGED <<zv, strings>> /\ CallRest

(* try_call, lines 164-172: rebuild the Vec, release strings, drop it *)
TryCallReclaim ==
    /\ call.pc = "reclaim"
    /\ call' = [call EXCEPT !.pc = "return",
                            !.packed = "freed",
                            !.log = @ \o ReleaseEvents(call.params, 1)
                                      \o <<Ev("free", call.len)>>]
    /\ UNCHANGED <<zv, strings>> /\ CallRest

(* try_call, lines 174-178 *)
TryCallReturn ==
    /\ call.pc = "return"
    /\ call' = [call EXCEPT !.pc = "done",
                            !.result = try_call_result(call.status, call.retval)]
    /\ UNCHANGED <<zv, strings>> /\ CallRest

NextCall == TryCallEnter \/ TryCallInvoke \/ TryCallReclaim \/ TryCallReturn

SpecCall == InitCall /\ [][NextCall]_vars

(* ------------------ alignment arithmetic (SpecAlign) ------------------ *)
(* isize, as a two's-complement word of WordBits bits *)
WordSize    == 2 ^ WordBits
ToWord(x)   == x % WordSize
FromWord(w) == IF w >= WordSize \div 2 THEN w - WordSize ELSE w

RECURSIVE BitAnd(_, _)
BitAnd(a, b) ==
    IF a = 0 \/ b = 0 THEN 0
    ELSE (a % 2) * (b % 2) + 2 * BitAnd(a \div 2, b \div 2)

(* ZEND_MM_ALIGNMENT_MASK = ~(ZEND_MM_ALIGNMENT - 1) *)
ZEND_MM_ALIGNMENT_MASK(align) == 0 - align

zend_mm_aligned_size_no_dec(size, align) ==
    FromWord(BitAnd(ToWord(size + align),
                    ToWord(ZEND_MM_ALIGNMENT_MASK(align))))

(* ((size as isize) + ZEND_MM_ALIGNMENT as isize - 1) & MASK as isize *)
zend_mm_aligned_size(size, align) ==
    FromWord(BitAnd(ToWord(size + align - 1),
                    ToWord(ZEND_MM_ALIGNMENT_MASK(align))))

zend_call_frame_slot_truncating(l) ==
    zend_mm_aligned_size(l.header, l.align)
    \div zend_mm_aligned_size(l.value, l.align)

(* (aligned::<Self>() + aligned::<Zval>() - 1) / aligned::<Zval>() *)
zend_call_frame_slot(l) ==
    (zend_mm_aligned_size(l.header, l.align)
        + zend_mm_aligned_size(l.value, l.align) - 1)
    \div zend_mm_aligned_size(l.value, l.align)

(* sizes and alignment asserted by tests::test_zend_call_frame_slot *)
Fixture == [header |-> 80, value |-> 16, align |-> 8]

Aligns  == {2 ^ k : k \in 0..MaxAlignLog}
Layouts == [header : 0..MaxSize, value : 1..MaxValue, align : Aligns]

InitAlign ==
    /\ zv = Zval_new
    /\ strings = <<>>
    /\ last = Op("new", 0, <<>>)
    /\ call = NoCall
    /\ layout \in Layouts
    /\ frame = NoFrame
    /\ out = NoOut

AlignRest == UNCHANGED <<zv, strings, last, call, layout, frame>>

(* zend_mm_aligned_size::<Self>() *)
AlignedSizeOfSelf ==
    /\ out' = [op |-> "zend_mm_aligned_size", size |-> layout.header,
               r |-> zend_mm_aligned_size(layout.header, layout.align)]
    /\ AlignRest

(* zend_mm_aligned_size::<Zval>() *)
AlignedSizeOfZval ==
    /\ out' = [op |-> "zend_mm_aligned_size", size |-> layout.value,
               r |-> zend_mm_aligned_size(layout.value, layout.align)]
    /\ AlignRest

CallFrameSlot ==
    /\ out' = [op |-> "zend_call_frame_slot", size |-> 0,
               r |-> zend_call_frame_slot(layout)]
    /\ AlignRest

NextAlign == AlignedSizeOfSelf \/ AlignedSizeOfZval \/ CallFrameSlot

SpecAlign == InitAlign /\ [][NextAlign]_vars

(* --------------------- ExecutionData (SpecFrame) ---------------------- *)
(* the sizes a build of the host gives the frame header and the Zval *)
BuildLayouts ==
    [header : {h \in 1..MaxSize : h % 4 = 0},
     value  : {Fixture.value},
     align  : {Fixture.align \div 2, Fixture.align}]

(* bytes that do not hold a Zval the host stored *)
GarbageZval ==
    [type_info |-> Garbage, value |-> [field |-> "ptr", data |-> Garbage],
     u2 |-> Garbage]

(* host: ZEND_MM_ALIGNED_SIZE, the least multiple of align that is >= size *)
HostAlignedSize(size, align) == ((size + align - 1) \div align) * align

(* host: the number of Zval slots the header takes (ZEND_CALL_FRAME_SLOT) *)
HostFrameSlot(l) ==
    CHOOSE k \in 0..(l.header + l.align) :
        /\ k * HostAlignedSize(l.value, l.align)
               >= HostAlignedSize(l.header, l.align)
        /\ \A j \in 0..(k - 1) :
               j * HostAlignedSize(l.value, l.align)
                   < HostAlignedSize(l.header, l.align)

(* host: byte offset from the frame's base at which argument n is stored *)
HostArgOffset(l, n) == (HostFrameSlot(l) + n) * l.value

(* the frames the host hands to a function of the extension:             *)
(*   function - no class scope, This holds no object                     *)
(*   method   - class scope, This holds the receiver                     *)
(*   static   - class scope, This holds the called class, not an object  *)
FrameKinds == {"function", "method", "static"}

ThisOf(kind) ==
    CASE kind = "method" -> set_object(Zval_new, 1, FALSE)
      [] kind = "static" -> [type_info |-> 0,
                             value |-> [field |-> "ce", data |-> 1], u2 |-> 0]
      [] OTHER           -> [type_info |-> 0,
                             value |-> [field |-> "ptr", data |-> 0], u2 |-> 0]

ScopeOf(kind) == IF kind = "function" THEN 0 ELSE 1

ArgValues == {From_long(1), From_bool(TRUE)}
ArgLists  == UNION {[1..n -> ArgValues] : n \in 0..MaxArgs}
PropNames == {"a", "b"}

Frames ==
    {[kind |-> k, scope |-> ScopeOf(k), This |-> ThisOf(k),
      args |-> a, props |-> ps] :
        k \in FrameKinds, a \in ArgLists, ps \in SUBSET PropNames}

(* the Zval read through a pointer off bytes past the frame's base *)
Deref(fr, l, off) ==
    IF \E i \in 1..Len(fr.args) : HostArgOffset(l, i - 1) = off
    THEN fr.args[CHOOSE i \in 1..Len(fr.args) : HostArgOffset(l, i - 1) = off]
    ELSE GarbageZval

zend_call_var_num_no_header(l, n) == n * l.value

(* ptr.offset(Self::zend_call_frame_slot() + n), in bytes from the base *)
zend_call_var_num(l, n) == (zend_call_frame_slot(l) + n) * l.value

(* self.zend_call_var_num(n).as_ref() *)
zend_call_arg(fr, l, n) == Some(Deref(fr, l, zend_call_var_num(l, n)))

(* zend_read_property: what the host can return for (ce, obj, name) *)
zend_read_property(fr, obj, name) ==
    IF obj = Garbage THEN {None, Some(GarbageZval), Some(From_long(1))}
    ELSE IF name \in fr.props THEN {Some(From_long(1))}
    ELSE {None}

(* get_parameter: [called, obj, r], r ranging over the host's answers *)
get_parameter(fr, name) ==
    IF fr.scope = 0
    THEN {[called |-> 0, obj |-> 0, r |-> None]}
    ELSE {[called |-> 1, obj |-> ReadValue(fr.This, "obj"), r |-> x] :
            x \in zend_read_property(fr, ReadValue(fr.This, "obj"), name)}

InitFrame ==
    /\ zv = Zval_new
    /\ strings = <<>>
    /\ last = Op("new", 0, <<>>)
    /\ call = NoCall
    /\ layout \in BuildLayouts
    /\ frame \in Frames
    /\ out = NoOut

FrameRest == UNCHANGED <<zv, strings, last, call, layout, frame>>

ZendCallArg ==
    \E n \in 0..MaxArgs :
        /\ out' = [op |-> "zend_call_arg", n |-> n,
                   ptr |-> zend_call_var_num(layout, n),
                   called |-> 0, obj |-> 0,
                   r |-> zend_call_arg(frame, layout, n)]
        /\ FrameRest

GetParameter ==
    \E name \in PropNames :
        \E g \in get_parameter(frame, name) :
            /\ out' = [op |-> "get_parameter", n |-> 0, ptr |-> 0,
                       called |-> g.called, obj |-> g.obj, r |-> g.r]
            /\ FrameRest

NextFrame == ZendCallArg \/ GetParameter

SpecFrame == InitFrame /\ [][NextFrame]_vars

(* ============================== claims ================================ *)

(* C1: on every exit path of try_call the argument buffer built from       *)
(* params has been released when try_call returns.                         *)
C1_BufferReleasedOnEveryExit ==
    call.pc = "done" => call.packed = "freed"

Events(name) == {i \in 1..Len(call.log) : call.log[i].ev = name}

(* C2: try_call returns None exactly when the value is not callable or the *)
(* host call returned a negative status; otherwise it returns Some of the  *)
(* output slot the host filled; a non-callable value is never invoked.     *)
C2_NoneIffNotCallableOrNegative ==
    call.pc = "done" =>
        /\ (call.result = None) <=>
               (~call.callable \/ (Events("call") # {} /\ call.status < 0))
        /\ call.result # None => call.result = Some(call.filled)
        /\ ~call.callable => Events("call") = {}
        /\ call.callable => Cardinality(Events("call")) = 1

C2_Witness ==
    /\ call.pc = "done"
    /\ call.callable
    /\ call.status = 0
    /\ call.result = Some(From_long(2))

Releases(i) ==
    {j \in 1..Len(call.log) :
        call.log[j].ev = "release" /\ call.log[j].arg = i}

(* C3: every String argument of try_call is released to the host exactly   *)
(* once, after the host call and before try_call returns, whether the call *)
(* succeeded or failed; no other argument is released.                     *)
C3_StringArgsReleasedOnce ==
    call.pc = "done" =>
        \A i \in 1..call.len :
            /\ Cardinality(Releases(i)) = IF is_string(call.params[i]) THEN 1 ELSE 0
            /\ \A j \in Releases(i) : \E c \in Events("call") : c < j

(* C4: each typed accessor returns Some exactly when its is_* predicate    *)
(* holds, except that double() also accepts a Long and string() a Long or  *)
(* a Double; long() is None on a Double; no accessor returns a payload     *)
(* that an earlier set_* of another type left in the union.                *)
C4_AccessorsFollowDiscriminant ==
    /\ (long(zv) # None) <=> is_long(zv)
    /\ (bool(zv) # None) <=> is_bool(zv)
    /\ (double(zv) # None) <=> (is_double(zv) \/ is_long(zv))
    /\ (string(zv, strings) # None) <=>
           (is_string(zv) \/ is_long(zv) \/ is_double(zv))
    /\ (resource(zv) # None) <=> is_resource(zv)
    /\ (array(zv) # None) <=> is_array(zv)
    /\ (object(zv) # None) <=> is_object(zv)
    /\ (reference(zv) # None) <=> is_reference(zv)
    /\ is_double(zv) => long(zv) = None
    /\ long(zv) # Some(Garbage)
    /\ double(zv) # Some(Garbage)
    /\ string(zv, strings) # Some(<<Garbage>>)
    /\ resource(zv) # Some(Garbage)
    /\ array(zv) # Some(ZendHashTable_from_ptr(Garbage))
    /\ object(zv) # Some(Garbage)
    /\ reference(zv) # Some(Garbage)

C4_Witness ==
    /\ is_true(zv)
    /\ zv.value.field = "lval"
    /\ long(zv) = None
    /\ double(zv) = None
    /\ string(zv, strings) = None
    /\ bool(zv) = Some(TRUE)

(* the is_T predicates that hold, one per type, and one per discriminant *)
TypesOf(z) ==
    {t \in {"null", "bool", "long", "double", "string", "resource", "array",
            "object", "reference"} :
        CASE t = "null"     -> is_null(z)
          [] t = "bool"     -> is_bool(z)
          [] t = "long"     -> is_long(z)
          [] t = "double"   -> is_double(z)
          [] t = "string"   -> is_string(z)
          [] t = "resource" -> is_resource(z)
          [] t = "array"    -> is_array(z)
          [] t = "object"   -> is_object(z)
          [] OTHER          -> is_reference(z)}

DiscriminantsOf(z) ==
    (TypesOf(z) \ {"bool"})
        \cup (IF is_true(z) THEN {"true"} ELSE {})
        \cup (IF is_false(z) THEN {"false"} ELSE {})

(* C5: at any time exactly one is_T predicate holds of the Zval: exactly   *)
(* one type (null, bool, long, double, string, resource, array, object,    *)
(* reference) and, with is_true / is_false for bool, one discriminant.     *)
C5_ExactlyOnePredicate ==
    /\ Cardinality(TypesOf(zv)) = 1
    /\ Cardinality(DiscriminantsOf(zv)) = 1

C5_Witness ==
    /\ zv.type_info = IS_STRING_EX
    /\ zv.type_info # type_(zv)
    /\ TypesOf(zv) = {"string"}

(* C6: a Zval built by From from a native long, bool, double or string     *)
(* reads back through long / bool / double / string as Some of that value. *)
C6_RoundTrip ==
    /\ last.op = "From_long" => long(zv) = Some(last.n)
    /\ last.op = "From_bool" => bool(zv) = Some(last.n = 1)
    /\ last.op = "From_double" => double(zv) = Some(last.n)
    /\ last.op \in {"From_String", "From_str"} =>
           string(zv, strings) = Some(last.s)

C6_Witness ==
    /\ last.op = "From_str"
    /\ last.s = <<233, 49>>
    /\ Len(strings) = 2
    /\ string(zv, strings) = Some(<<233, 49>>)

(* C7: r = zend_mm_aligned_size(s) is a multiple of the alignment m,       *)
(* r >= s and r < s + m.                                                   *)
C7_AlignedSizeRoundsUp ==
    out.op = "zend_mm_aligned_size" =>
        /\ out.r % layout.align = 0
        /\ out.r >= out.size
        /\ out.r < out.size + layout.align

C7_Witness ==
    /\ out.op = "zend_mm_aligned_size"
    /\ out.size = 13
    /\ layout.align = 8
    /\ out.r = 16

(* the least k with k * b >= a *)
CeilDiv(a, b) ==
    CHOOSE k \in 0..a : k * b >= a /\ \A j \in 0..(k - 1) : j * b < a

(* C8: zend_call_frame_slot() is the least k with                          *)
(* k * aligned_size(sizeof Zval) >= aligned_size(sizeof header), and 5 for *)
(* the PHP 8.0.2 fixture.                                                  *)
C8_FrameSlotIsCeiling ==
    out.op = "zend_call_frame_slot" =>
        /\ out.r = CeilDiv(zend_mm_aligned_size(layout.header, layout.align),
                           zend_mm_aligned_size(layout.value, layout.align))
        /\ layout = Fixture => out.r = 5

C8_Witness ==
    /\ out.op = "zend_call_frame_slot"
    /\ layout = Fixture
    /\ out.r = 5

(* C9: get_parameter returns None without calling the host property read   *)
(* on every frame without a receiver, None when the host returns its null  *)
(* sentinel, and otherwise the value the host returned.                    *)
C9_NoReceiverNoHostRead ==
    out.op = "get_parameter" /\ ~is_object(frame.This) =>
        out.r = None /\ out.called = 0

(* C10: for n below the argument count zend_call_arg(n) reads the slot     *)
(* zend_call_frame_slot() + n, counted in Zvals from the frame's base:     *)
(* past the header, disjoint from the slots of the other arguments, and    *)
(* holding the n-th argument.                                              *)
C10_ArgSlotAfterHeader ==
    out.op = "zend_call_arg" /\ out.n < Len(frame.args) =>
        /\ out.ptr = (zend_call_frame_slot(layout) + out.n) * layout.value
        /\ out.ptr >= layout.header
        /\ \A m \in 0..(Len(frame.args) - 1) :
               m # out.n =>
                   \/ zend_call_var_num(layout, m) >= out.ptr + layout.value
                   \/ zend_call_var_num(layout, m) + layout.value <= out.ptr
        /\ out.r = Some(frame.args[out.n + 1])

C10_Witness ==
    /\ out.op = "zend_call_arg"
    /\ layout = Fixture
    /\ frame.args = <<From_long(1)>>
    /\ out.n = 0
    /\ out.ptr = 80
    /\ out.r = Some(From_long(1))

====
